---- MODULE Spec2Model ----
(***************************************************************************)
(* rice-cli (src/main.rs): the setup wizard run_setup, the report view     *)
(* run_config and the standalone probe run_check, as one state machine.    *)
(*                                                                         *)
(* Text.  A string is a sequence of symbols, and concatenation is \o, so a *)
(* file is the flat sequence of what was written to it.  In the strings    *)
(* the program searches (the urls, the key names) ":" and "TOKEN" are     *)
(* symbols of their own, and every other symbol stands for text holding    *)
(* neither: one character in Alphabet, a whole piece of text elsewhere.    *)
(* The line break between the lines of the env block is the symbol "\n".   *)
(***************************************************************************)
EXTENDS Integers, Sequences, FiniteSets, TLC

VARIABLES
    cmd,        \* the subcommand main dispatched to: "setup", "config", "check"
    pc,         \* where the running command stands; "exit" when none is running
    runs,       \* commands started so far
    faults,     \* filesystem failures so far
    cfg,        \* rice.config.js: [exists, data]
    env,        \* .env: [exists, data]
    cfg0,       \* rice.config.js as it was when the current command started
    env0,       \* .env as it was when the current command started
    a,          \* run_setup's locals: the two flags and the seven strings
    prompts,    \* the prompts asked by the current command, <<label, result>> each
    reqs,       \* the URLs of the GET requests issued by the current command
    result,     \* what main returned: "none" (still running), "ok", "err"
    failed,     \* the call whose error was propagated by ?: "none", "prompt", "cfg", "env"
    out,        \* the lines printed by the current command
    environ,    \* std::env::var's answers for the seven keys, after dotenvy::dotenv()
    cfgStep,    \* step 2 of run_setup: "none", "created", "skipped", "failed"
    envStep     \* step 3 of run_setup: "none", "created", "appended", "failed"

vars == <<cmd, pc, runs, faults, cfg, env, cfg0, env0, a, prompts, reqs, result,
          failed, out, environ, cfgStep, envStep>>

-----------------------------------------------------------------------------
(* Bounds *)

\* commands run one after the other in the same directory
MaxRuns == 2
\* length of the url strings drawn character by character
MaxLen == 3
\* symbols a failed write may have written before it failed
MaxPartial == 1
\* filesystem failures followed in one behaviour
MaxFaults == 1

-----------------------------------------------------------------------------
(* Text helpers *)

Min(x, y) == IF x < y THEN x ELSE y

Ok(v) == <<"Ok", v>>
Err == <<"Err">>
IsOk(r) == r[1] = "Ok"

\* str::contains with a one-symbol pattern
contains(s, c) == \E i \in 1..Len(s) : s[i] = c

\* str::split(c): the pieces between the occurrences of c, left to right
RECURSIVE splitFrom(_, _, _, _)
splitFrom(s, c, i, cur) ==
    IF i > Len(s) THEN <<cur>>
    ELSE IF s[i] = c THEN <<cur>> \o splitFrom(s, c, i + 1, <<>>)
    ELSE splitFrom(s, c, i + 1, Append(cur, s[i]))

split(s, c) == splitFrom(s, c, 1, <<>>)

\* Iterator::next().unwrap_or(d)
next_unwrap_or(it, d) == IF Len(it) > 0 THEN Head(it) ELSE d

\* format!("{}", bool)
fmt_bool(b) == IF b THEN <<"true">> ELSE <<"false">>

-----------------------------------------------------------------------------
(* Program constants: the defaults of run_setup and run_check *)

DEFAULT_URL == <<"localhost", ":", "50051">>
DEFAULT_USER == <<"admin">>
DEFAULT_TOKEN == <<>>
DEFAULT_HTTP_PORT == <<"3000">>
DEFAULT_RUN_ID == <<"default">>

Defaults ==
    [enable_storage |-> FALSE, enable_state |-> FALSE,
     storage_url |-> DEFAULT_URL, storage_user |-> DEFAULT_USER,
     storage_token |-> DEFAULT_TOKEN, storage_http_port |-> DEFAULT_HTTP_PORT,
     state_url |-> DEFAULT_URL, state_token |-> DEFAULT_TOKEN,
     state_run_id |-> DEFAULT_RUN_ID]

\* the seven keys, in the order of run_config's array
config_vars ==
    << <<"STORAGE_INSTANCE_URL">>, <<"STORAGE_USER">>, <<"STORAGE_AUTH_", "TOKEN">>,
       <<"STORAGE_HTTP_PORT">>, <<"STATE_INSTANCE_URL">>, <<"STATE_AUTH_", "TOKEN">>,
       <<"STATE_RUN_ID">> >>

MASK == <<"********">>

CHECK == <<"CHECK ">>
CROSS == <<"CROSS ">>

-----------------------------------------------------------------------------
(* Pure functions of the program *)

\* the settings document
config_content(enable_storage, enable_state) ==
    <<"/** @type {import('rice-node-sdk').RiceConfig} */\nmodule.exports = {\n  storage: {\n    enabled: ">>
    \o fmt_bool(enable_storage)
    \o <<",\n  },\n  state: {\n    enabled: ">>
    \o fmt_bool(enable_state)
    \o <<",\n  },\n};">>

\* mutant: STATE_AUTH_TOKEN is given the storage token
env_content_wrong_token(l) ==
    <<"\n", "# Rice Configuration", "\n">>
    \o <<"STORAGE_INSTANCE_URL", "=">> \o l.storage_url \o <<"\n">>
    \o <<"STORAGE_USER", "=">> \o l.storage_user \o <<"\n">>
    \o <<"STORAGE_AUTH_", "TOKEN", "=">> \o l.storage_token \o <<"\n">>
    \o <<"STORAGE_HTTP_PORT", "=">> \o l.storage_http_port \o <<"\n">>
    \o <<"STATE_INSTANCE_URL", "=">> \o l.state_url \o <<"\n">>
    \o <<"STATE_AUTH_", "TOKEN", "=">> \o l.storage_token \o <<"\n">>
    \o <<"STATE_RUN_ID", "=">> \o l.state_run_id \o <<"\n">>

\* the env block
env_content(l) ==
    <<"\n", "# Rice Configuration", "\n">>
    \o <<"STORAGE_INSTANCE_URL", "=">> \o l.storage_url \o <<"\n">>
    \o <<"STORAGE_USER", "=">> \o l.storage_user \o <<"\n">>
    \o <<"STORAGE_AUTH_", "TOKEN", "=">> \o l.storage_token \o <<"\n">>
    \o <<"STORAGE_HTTP_PORT", "=">> \o l.storage_http_port \o <<"\n">>
    \o <<"STATE_INSTANCE_URL", "=">> \o l.state_url \o <<"\n">>
    \o <<"STATE_AUTH_", "TOKEN", "=">> \o l.state_token \o <<"\n">>
    \o <<"STATE_RUN_ID", "=">> \o l.state_run_id \o <<"\n">>

\* mutant: the url is used whole, its port included
setup_host_whole(storage_url) == storage_url

\* run_setup's host and health_url
setup_host(storage_url) ==
    IF contains(storage_url, ":")
    THEN next_unwrap_or(split(storage_url, ":"), <<"localhost">>)
    ELSE storage_url

setup_health_url(storage_url, storage_http_port) ==
    <<"http", ":", "//">> \o setup_host(storage_url) \o <<":">>
    \o storage_http_port \o <<"/health">>

\* run_check's host and health_url
check_host(storage_url) ==
    IF contains(storage_url, ":")
    THEN next_unwrap_or(split(storage_url, ":"), <<"localhost">>)
    ELSE storage_url

check_health_url(storage_url, http_port) ==
    <<"http", ":", "//">> \o check_host(storage_url) \o <<":">>
    \o http_port \o <<"/health">>

\* mutant: the value is printed as stored
display_val_plain(var, val) == val

\* run_config's display_val and line for one key
display_val(var, val) == IF contains(var, "TOKEN") THEN MASK ELSE val

config_line(var, r) ==
    IF IsOk(r) THEN var \o <<": ">> \o display_val(var, r[2])
    ELSE var \o <<": ", "Not set">>

\* std::env::var(name)
env_var(e, name) == e[CHOOSE i \in 1..Len(config_vars) : config_vars[i] = name]

\* Result::unwrap_or
unwrap_or(r, d) == IF IsOk(r) THEN r[2] ELSE d

-----------------------------------------------------------------------------
(* The filesystem *)

NoFile == [exists |-> FALSE, data |-> <<>>]
File(d) == [exists |-> TRUE, data |-> d]

\* fs::write(path, content): create or truncate, then write it all.  A failure
\* leaves the file as it was (it could not be opened) or truncated with the
\* first k symbols written.
fs_write(old, content, canFail) ==
    {[ok |-> TRUE, file |-> File(content)]}
    \cup (IF canFail
          THEN {[ok |-> FALSE, file |-> old]}
               \cup {[ok |-> FALSE, file |-> File(SubSeq(content, 1, k))] :
                       k \in 0..Min(MaxPartial, Len(content) - 1)}
          ELSE {})

\* mutant: the file is opened without append, and written from its start
fs_append_truncating(old, content, canFail) ==
    {[ok |-> TRUE, file |-> File(content)]}
    \cup (IF canFail THEN {[ok |-> FALSE, file |-> old]} ELSE {})

\* OpenOptions::new().write(true).append(true).open(path)? then write!(file, ..)?
\* A failure leaves the file as it was (open failed) or with the first k
\* symbols appended.
fs_append(old, content, canFail) ==
    {[ok |-> TRUE, file |-> File(old.data \o content)]}
    \cup (IF canFail
          THEN {[ok |-> FALSE, file |-> File(old.data \o SubSeq(content, 1, k))] :
                       k \in 0..Min(MaxPartial, Len(content) - 1)}
          ELSE {})

-----------------------------------------------------------------------------
(* What the user, the environment and the network may answer *)

Alphabet == {"h", ":", "1"}
Strings(n) == UNION {[1..k -> Alphabet] : k \in 0..n}

\* several commands in a row, few values per answer
MainInputs ==
    [maxRuns |-> MaxRuns,
     urls |-> {DEFAULT_URL, <<"storage.example.com">>},
     users |-> {DEFAULT_USER},
     tokens |-> {<<>>, <<"s3cret">>},
     ports |-> {DEFAULT_HTTP_PORT},
     stateUrls |-> {DEFAULT_URL},
     runIds |-> {DEFAULT_RUN_ID},
     envUrls |-> {DEFAULT_URL, <<"storage.example.com">>}]

\* one command, every answer varied, the urls drawn character by character
SingleInputs ==
    [maxRuns |-> 1,
     urls |-> (Strings(MaxLen) \ {<<>>}) \cup {DEFAULT_URL, <<"storage.example.com">>},
     users |-> {DEFAULT_USER, <<"root">>},
     tokens |-> {<<>>, <<"s3cret">>},
     ports |-> {DEFAULT_HTTP_PORT, <<"8080">>},
     stateUrls |-> {DEFAULT_URL, <<"state.example.com", ":", "7000">>},
     runIds |-> {DEFAULT_RUN_ID, <<"run-1">>},
     envUrls |-> Strings(MaxLen) \cup {DEFAULT_URL, <<"storage.example.com">>}]

\* the process environment after dotenvy::dotenv(): each key set or not
Results(S) == {Ok(v) : v \in S} \cup {Err}

Environs(I) ==
    Results(I.envUrls) \X Results(I.users) \X Results(I.tokens) \X Results(I.ports)
    \X Results(I.stateUrls) \X Results(I.tokens) \X Results(I.runIds)

\* the outcome of client.get(..).send().await
Responses == {"2xx", "non2xx", "transport_error"}

\* the files found in the working directory
InitCfg == {NoFile, File(<<"module.exports = {};">>)}
InitEnv == {NoFile, File(<<"FOO", "=", "bar">>)}

-----------------------------------------------------------------------------
(* Initial state: no command run yet *)

Init ==
    /\ cmd = "none"
    /\ pc = "exit"
    /\ runs = 0
    /\ faults = 0
    /\ cfg \in InitCfg
    /\ env \in InitEnv
    /\ cfg0 = cfg
    /\ env0 = env
    /\ a = Defaults
    /\ prompts = <<>>
    /\ reqs = <<>>
    /\ result = "none"
    /\ failed = "none"
    /\ out = <<>>
    /\ environ = <<Err, Err, Err, Err, Err, Err, Err>>
    /\ cfgStep = "none"
    /\ envStep = "none"

-----------------------------------------------------------------------------
(* main *)

first_pc(c) ==
    CASE c = "setup" -> "enable_storage"
      [] c = "config" -> "run_config"
      [] c = "check" -> "run_check"

\* what run_setup prints before its first prompt
welcome ==
    << <<"Welcome to the Rice CLI Setup">>,
       <<"This utility will walk you through setting up Rice in your project.", "\n">> >>

\* main: parse the command line and dispatch; a new process starts with
\* nothing asked or requested
Main(I) ==
    /\ pc = "exit"
    /\ runs < I.maxRuns
    /\ \E c \in {"setup", "config", "check"} :
         /\ cmd' = c
         /\ pc' = first_pc(c)
         /\ out' = IF c = "setup" THEN welcome ELSE <<>>
    /\ runs' = runs + 1
    /\ cfg0' = cfg
    /\ env0' = env
    /\ a' = Defaults
    /\ prompts' = <<>>
    /\ reqs' = <<>>
    /\ result' = "none"
    /\ failed' = "none"
    /\ environ' = <<Err, Err, Err, Err, Err, Err, Err>>
    /\ cfgStep' = "none"
    /\ envStep' = "none"
    /\ UNCHANGED <<faults, cfg, env>>


-----------------------------------------------------------------------------
(* run_setup *)

\* mutant: a confirmation is asked before .env is written
PromptPcs_with_env ==
    {"enable_storage", "enable_state", "storage_url", "storage_user",
     "storage_token", "storage_http_port", "state_url", "state_token",
     "state_run_id", "overwrite", "env"}

\* the steps that wait in interact()?
PromptPcs ==
    {"enable_storage", "enable_state", "storage_url", "storage_user",
     "storage_token", "storage_http_port", "state_url", "state_token",
     "state_run_id", "overwrite"}

\* the heading printed on the way to the next step
heading(p) ==
    CASE p = "storage_url" -> << <<"\n", "Storage Configuration">> >>
      [] p = "state_url" -> << <<"\n", "State Configuration">> >>
      [] p = "config" -> << <<"\n", "Generating configuration files...">> >>
      [] OTHER -> <<>>

\* where run_setup goes once the storage answers are in
after_storage(l) == IF l.enable_state THEN "state_url" ELSE "config"

\* where run_setup goes once both Confirm prompts are answered
after_enable(l) == IF l.enable_storage THEN "storage_url" ELSE after_storage(l)

\* mutant: the early return is missing
none_enabled_never(l) == FALSE

\* the check after the two Confirm prompts: no service enabled
none_enabled(l) == ~l.enable_storage /\ ~l.enable_state

\* mutant: the probe is sent whichever service is enabled
should_verify_any(l) == l.enable_storage \/ l.enable_state

\* the condition of step 4
should_verify(l) == l.enable_storage

\* any prompt: interact()? returns the error of an interrupted prompt
PromptInterrupted ==
    /\ cmd = "setup"
    /\ pc \in PromptPcs
    /\ prompts' = Append(prompts, <<pc, Err>>)
    /\ result' = "err"
    /\ failed' = "prompt"
    /\ pc' = "exit"
    /\ UNCHANGED <<cmd, runs, faults, cfg, env, cfg0, env0, a, reqs, out, environ,
                   cfgStep, envStep>>

\* Confirm "Enable Rice Storage?"
AskEnableStorage ==
    /\ pc = "enable_storage"
    /\ \E b \in BOOLEAN :
         /\ a' = [a EXCEPT !.enable_storage = b]
         /\ prompts' = Append(prompts, <<pc, Ok(b)>>)
    /\ pc' = "enable_state"
    /\ UNCHANGED <<cmd, runs, faults, cfg, env, cfg0, env0, reqs, result, failed,
                   out, environ, cfgStep, envStep>>

\* Confirm "Enable Rice State (AI Agent Memory)?", then the check that one
\* service at least is enabled
AskEnableState ==
    /\ pc = "enable_state"
    /\ \E b \in BOOLEAN :
         /\ a' = [a EXCEPT !.enable_state = b]
         /\ prompts' = Append(prompts, <<pc, Ok(b)>>)
    /\ IF none_enabled(a')
       THEN /\ out' = Append(out, <<"You must enable at least one service.">>)
            /\ result' = "ok"
            /\ pc' = "exit"
       ELSE /\ out' = out \o heading(after_enable(a'))
            /\ result' = result
            /\ pc' = after_enable(a')
    /\ UNCHANGED <<cmd, runs, faults, cfg, env, cfg0, env0, reqs, failed, environ,
                   cfgStep, envStep>>

\* an Input or Password prompt answered with v, and the step that follows
Answered(l, nxt, v) ==
    /\ a' = l
    /\ prompts' = Append(prompts, <<pc, Ok(v)>>)
    /\ out' = out \o heading(nxt)
    /\ pc' = nxt
    /\ UNCHANGED <<cmd, runs, faults, cfg, env, cfg0, env0, reqs, result, failed,
                   environ, cfgStep, envStep>>

AskStorageUrl(I) ==
    /\ pc = "storage_url"
    /\ \E v \in I.urls : Answered([a EXCEPT !.storage_url = v], "storage_user", v)

AskStorageUser(I) ==
    /\ pc = "storage_user"
    /\ \E v \in I.users : Answered([a EXCEPT !.storage_user = v], "storage_token", v)

AskStorageToken(I) ==
    /\ pc = "storage_token"
    /\ \E v \in I.tokens :
         Answered([a EXCEPT !.storage_token = v], "storage_http_port", v)

AskStorageHttpPort(I) ==
    /\ pc = "storage_http_port"
    /\ \E v \in I.ports :
         Answered([a EXCEPT !.storage_http_port = v], after_storage(a), v)

AskStateUrl(I) ==
    /\ pc = "state_url"
    /\ \E v \in I.stateUrls : Answered([a EXCEPT !.state_url = v], "state_token", v)

AskStateToken(I) ==
    /\ pc = "state_token"
    /\ \E v \in I.tokens : Answered([a EXCEPT !.state_token = v], "state_run_id", v)

AskStateRunId(I) ==
    /\ pc = "state_run_id"
    /\ \E v \in I.runIds : Answered([a EXCEPT !.state_run_id = v], "config", v)

\* fs::write(config_path, config_content)? and the line printed after it
WriteConfig ==
    \E w \in fs_write(cfg, config_content(a.enable_storage, a.enable_state),
                      faults < MaxFaults) :
        /\ cfg' = w.file
        /\ IF w.ok
           THEN /\ out' = Append(out, CHECK \o <<"Created rice.config.js">>)
                /\ cfgStep' = "created"
                /\ pc' = "env"
                /\ UNCHANGED <<result, failed, faults>>
           ELSE /\ cfgStep' = "failed"
                /\ result' = "err"
                /\ failed' = "cfg"
                /\ faults' = faults + 1
                /\ pc' = "exit"
                /\ out' = out

\* mutant: the file is written without looking for an existing one
GenerateConfig_no_exists_check ==
    /\ pc = "config"
    /\ WriteConfig
    /\ UNCHANGED <<cmd, runs, env, cfg0, env0, a, prompts, reqs, environ, envStep>>

\* step 2: config_path.exists(); the file is written at once when it does not
GenerateConfig ==
    /\ pc = "config"
    /\ IF cfg.exists
       THEN /\ pc' = "overwrite"
            /\ UNCHANGED <<cfg, out, cfgStep, result, failed, faults>>
       ELSE WriteConfig
    /\ UNCHANGED <<cmd, runs, env, cfg0, env0, a, prompts, reqs, environ, envStep>>

\* Confirm "rice.config.js already exists. Overwrite?"
AskOverwrite ==
    /\ pc = "overwrite"
    /\ \E overwrite \in BOOLEAN :
         /\ prompts' = Append(prompts, <<pc, Ok(overwrite)>>)
         /\ IF overwrite
            THEN WriteConfig
            ELSE /\ out' = Append(out, CHECK \o <<"Skipped rice.config.js">>)
                 /\ cfgStep' = "skipped"
                 /\ pc' = "env"
                 /\ UNCHANGED <<cfg, result, failed, faults>>
    /\ UNCHANGED <<cmd, runs, env, cfg0, env0, a, reqs, environ, envStep>>

\* mutant: the error of the .env write is dropped and the run goes on
UpdateEnv_ignores_error ==
    /\ pc = "env"
    /\ \E w \in (IF env.exists
                 THEN fs_append(env, env_content(a), faults < MaxFaults)
                 ELSE fs_write(env, env_content(a), faults < MaxFaults)) :
         /\ env' = w.file
         /\ out' = Append(out, CHECK \o (IF env.exists
                                          THEN <<"Appended to .env">>
                                          ELSE <<"Created .env">>))
         /\ envStep' = IF w.ok THEN (IF env.exists THEN "appended" ELSE "created")
                       ELSE "failed"
         /\ faults' = IF w.ok THEN faults ELSE faults + 1
         /\ pc' = "verify"
         /\ UNCHANGED <<result, failed>>
    /\ UNCHANGED <<cmd, runs, cfg, cfg0, env0, a, prompts, reqs, environ, cfgStep>>

\* step 3: append the block to .env, or create .env with it
UpdateEnv ==
    /\ pc = "env"
    /\ \E w \in (IF env.exists
                 THEN fs_append(env, env_content(a), faults < MaxFaults)
                 ELSE fs_write(env, env_content(a), faults < MaxFaults)) :
         /\ env' = w.file
         /\ IF w.ok
            THEN /\ out' = Append(out, CHECK \o (IF env.exists
                                                  THEN <<"Appended to .env">>
                                                  ELSE <<"Created .env">>))
                 /\ envStep' = IF env.exists THEN "appended" ELSE "created"
                 /\ pc' = "verify"
                 /\ UNCHANGED <<result, failed, faults>>
            ELSE /\ envStep' = "failed"
                 /\ result' = "err"
                 /\ failed' = "env"
                 /\ faults' = faults + 1
                 /\ pc' = "exit"
                 /\ out' = out
    /\ UNCHANGED <<cmd, runs, cfg, cfg0, env0, a, prompts, reqs, environ, cfgStep>>

\* the two lines that end run_setup
setup_complete ==
    << <<"\n", "Setup complete!">>,
       <<"You can now install the SDK using: npm install rice-node-sdk">> >>

\* step 4: with storage enabled, send the one GET and wait for it; without,
\* go straight to the end of run_setup
VerifyConnection ==
    /\ pc = "verify"
    /\ IF should_verify(a)
       THEN /\ reqs' = Append(reqs, setup_health_url(a.storage_url, a.storage_http_port))
            /\ out' = Append(out, <<"">>)
            /\ pc' = "await"
            /\ UNCHANGED result
       ELSE /\ out' = out \o setup_complete
            /\ result' = "ok"
            /\ pc' = "exit"
            /\ UNCHANGED reqs
    /\ UNCHANGED <<cmd, runs, faults, cfg, env, cfg0, env0, a, prompts, failed,
                   environ, cfgStep, envStep>>

\* what run_setup prints for each outcome of the request
setup_report(r, health_url) ==
    CASE r = "2xx" ->
           << CHECK \o <<"Successfully connected to Rice Storage at ">> \o health_url >>
      [] r = "non2xx" ->
           << CROSS \o <<"Connection failed: Status ", "status">>,
              <<"   Please check if your Rice instance is running.">> >>
      [] r = "transport_error" ->
           << CROSS \o <<"Connection failed: ", "error">>,
              <<"   Could not reach ">> \o health_url
                \o <<". Please ensure Rice is running and HTTP port is correct.">> >>

\* mutant: a transport error is propagated with ? instead of being reported
VerifyResponse_propagates ==
    /\ cmd = "setup"
    /\ pc = "await"
    /\ \E r \in Responses :
         IF r = "transport_error"
         THEN /\ out' = out
              /\ result' = "err"
         ELSE /\ out' = out \o setup_report(r, setup_health_url(a.storage_url,
                                                                a.storage_http_port))
                         \o setup_complete
              /\ result' = "ok"
    /\ pc' = "exit"
    /\ UNCHANGED <<cmd, runs, faults, cfg, env, cfg0, env0, a, prompts, reqs, failed,
                   environ, cfgStep, envStep>>

\* the match on send().await, then the end of run_setup
VerifyResponse ==
    /\ cmd = "setup"
    /\ pc = "await"
    /\ \E r \in Responses :
         out' = out \o setup_report(r, setup_health_url(a.storage_url, a.storage_http_port))
                    \o setup_complete
    /\ result' = "ok"
    /\ pc' = "exit"
    /\ UNCHANGED <<cmd, runs, faults, cfg, env, cfg0, env0, a, prompts, reqs, failed,
                   environ, cfgStep, envStep>>

-----------------------------------------------------------------------------
(* run_config *)

config_lines(e) == [i \in 1..Len(config_vars) |-> config_line(config_vars[i], e[i])]

RunConfig(I) ==
    /\ pc = "run_config"
    /\ \E e \in Environs(I) :
         /\ environ' = e
         /\ out' = << <<"Rice Configuration:">> >> \o config_lines(e)
                   \o << IF cfg.exists THEN <<"\n", "rice.config.js found.">>
                         ELSE <<"\n", "rice.config.js not found.">> >>
    /\ result' = "ok"
    /\ pc' = "exit"
    /\ UNCHANGED <<cmd, runs, faults, cfg, env, cfg0, env0, a, prompts, reqs, failed,
                   cfgStep, envStep>>

-----------------------------------------------------------------------------
(* run_check *)

RunCheck(I) ==
    /\ pc = "run_check"
    /\ \E e \in Environs(I) :
         /\ environ' = e
         /\ reqs' = Append(reqs,
               check_health_url(
                   unwrap_or(env_var(e, <<"STORAGE_INSTANCE_URL">>), DEFAULT_URL),
                   unwrap_or(env_var(e, <<"STORAGE_HTTP_PORT">>), DEFAULT_HTTP_PORT)))
    /\ out' = Append(out, <<"Checking connection to Rice...">>)
    /\ pc' = "check_await"
    /\ UNCHANGED <<cmd, runs, faults, cfg, env, cfg0, env0, a, prompts, result,
                   failed, cfgStep, envStep>>

check_report(r) ==
    CASE r = "2xx" -> CHECK \o <<"Storage is healthy (Status: ", "status", ")">>
      [] r = "non2xx" -> CROSS \o <<"Storage is unhealthy (Status: ", "status", ")">>
      [] r = "transport_error" -> CROSS \o <<"Failed to connect to Storage: ", "error">>

CheckResponse ==
    /\ cmd = "check"
    /\ pc = "check_await"
    /\ \E r \in Responses : out' = Append(out, check_report(r))
    /\ result' = "ok"
    /\ pc' = "exit"
    /\ UNCHANGED <<cmd, runs, faults, cfg, env, cfg0, env0, a, prompts, reqs, failed,
                   environ, cfgStep, envStep>>

-----------------------------------------------------------------------------
(* Specifications *)

Step(I) ==
    \/ Main(I)
    \/ PromptInterrupted
    \/ AskEnableStorage
    \/ AskEnableState
    \/ AskStorageUrl(I)
    \/ AskStorageUser(I)
    \/ AskStorageToken(I)
    \/ AskStorageHttpPort(I)
    \/ AskStateUrl(I)
    \/ AskStateToken(I)
    \/ AskStateRunId(I)
    \/ GenerateConfig
    \/ AskOverwrite
    \/ UpdateEnv
    \/ VerifyConnection
    \/ VerifyResponse
    \/ RunConfig(I)
    \/ RunCheck(I)
    \/ CheckResponse

\* up to MaxRuns commands, one after the other, in the same directory
Next == Step(MainInputs)

Spec == Init /\ [][Next]_vars

\* one command, with every answer varied
NextSingle == Step(SingleInputs)

SpecSingle == Init /\ [][NextSingle]_vars

-----------------------------------------------------------------------------
(* Reading the history of the current command *)

\* the prompt with this label was shown (it is pending, or it has returned)
Asked(label) ==
    \/ (cmd = "setup" /\ pc = label)
    \/ \E i \in 1..Len(prompts) : prompts[i][1] = label

\* the prompt with this label returned the answer v
AnsweredWith(label, v) ==
    \E i \in 1..Len(prompts) :
        /\ prompts[i][1] = label
        /\ IsOk(prompts[i][2])
        /\ prompts[i][2][2] = v

\* the answer the prompt with this label returned
AnswerTo(label) ==
    (prompts[CHOOSE i \in 1..Len(prompts) : prompts[i][1] = label /\ IsOk(prompts[i][2])])[2][2]

Printed(line) == \E i \in 1..Len(out) : out[i] = line

SetupCompletePrinted == Printed(<<"\n", "Setup complete!">>)

\* s is the beginning of t
IsPrefix(s, t) == Len(s) <= Len(t) /\ SubSeq(t, 1, Len(s)) = s

\* the text of url before its first ":", the whole of it when it has none
BeforeFirstColon(url) ==
    IF \E i \in 1..Len(url) : url[i] = ":"
    THEN LET first == CHOOSE i \in 1..Len(url) :
                          /\ url[i] = ":"
                          /\ \A j \in 1..(i - 1) : url[j] # ":"
         IN  SubSeq(url, 1, first - 1)
    ELSE url

\* "http://" + H + ":" + http_port + "/health"
ExpectedHealthUrl(url, http_port) ==
    <<"http", ":", "//">> \o BeforeFirstColon(url) \o <<":">> \o http_port \o <<"/health">>

-----------------------------------------------------------------------------
(* Claims *)

\* C1: a run_setup in which both Confirm prompts are answered false has ended
\* with Ok, has asked nothing else, has written neither file (both are what
\* they were when the run started) and has sent no request.
C1_BothDeclinedTouchesNothing ==
    (/\ cmd = "setup"
     /\ AnsweredWith("enable_storage", FALSE)
     /\ AnsweredWith("enable_state", FALSE))
    => /\ pc = "exit"
       /\ result = "ok"
       /\ failed = "none"
       /\ Len(prompts) = 2
       /\ cfgStep = "none"
       /\ envStep = "none"
       /\ cfg = cfg0
       /\ env = env0
       /\ reqs = <<>>

\* C1 witness: such a run has happened, in a directory that holds both files
C1_Witness ==
    /\ cmd = "setup"
    /\ AnsweredWith("enable_storage", FALSE)
    /\ AnsweredWith("enable_state", FALSE)
    /\ pc = "exit"
    /\ cfg0.exists
    /\ env0.exists

\* C2: every request of run_setup and of run_check goes to
\* "http://" + H + ":" + http_port + "/health", H being the url up to its first
\* ":" (all of it without one); what follows the first ":" of the url is not
\* in the result.  The two examples of the specification are instances.
C2_HealthUrl ==
    /\ (cmd = "setup" /\ reqs # <<>>)
         => reqs[1] = ExpectedHealthUrl(a.storage_url, a.storage_http_port)
    /\ (cmd = "check" /\ reqs # <<>>)
         => reqs[1] = ExpectedHealthUrl(
                unwrap_or(environ[1], <<"localhost", ":", "50051">>),
                unwrap_or(environ[4], <<"3000">>))
    /\ (cmd = "setup" /\ reqs # <<>> /\ a.storage_url = <<"localhost", ":", "50051">>
            /\ a.storage_http_port = <<"3000">>)
         => reqs[1] = <<"http", ":", "//", "localhost", ":", "3000", "/health">>
    /\ (cmd = "setup" /\ reqs # <<>> /\ a.storage_url = <<"storage.example.com">>
            /\ a.storage_http_port = <<"8080">>)
         => reqs[1] = <<"http", ":", "//", "storage.example.com", ":", "8080", "/health">>

\* C2 witness: run_setup has sent its request for a url that holds a port, one
\* that is not the HTTP port
C2_Witness ==
    /\ cmd = "setup"
    /\ reqs # <<>>
    /\ a.storage_url = <<"h", ":", "1">>
    /\ a.storage_http_port = <<"8080">>
    /\ reqs[1] = <<"http", ":", "//", "h", ":", "8080", "/health">>

\* C3: once step 2 of run_setup has looked for rice.config.js, the overwrite
\* prompt has been shown exactly when the file existed; answered false, the
\* file is what it was when the run started, whatever the two flags; and when
\* the file did not exist the write was made with no prompt, and left the
\* rendered document when it succeeded.
C3_OverwriteGuard ==
    cmd = "setup" =>
      /\ (cfgStep # "none" \/ Asked("overwrite"))
           => (Asked("overwrite") <=> cfg0.exists)
      /\ AnsweredWith("overwrite", FALSE)
           => (cfg = cfg0 /\ cfgStep = "skipped")
      /\ (~cfg0.exists /\ (cfgStep # "none" \/ Asked("overwrite")))
           => /\ cfgStep \in {"created", "failed"}
              /\ ~Asked("overwrite")
              /\ cfgStep = "created"
                   => cfg = File(config_content(AnswerTo("enable_storage"),
                                                AnswerTo("enable_state")))

\* C3 witness: a finished run that found the file, chose flags and answered
\* false to the overwrite prompt
C3_Witness ==
    /\ cmd = "setup"
    /\ pc = "exit"
    /\ result = "ok"
    /\ cfg0.exists
    /\ AnsweredWith("overwrite", FALSE)
    /\ AnsweredWith("enable_storage", TRUE)
    /\ AnsweredWith("enable_state", FALSE)

\* C4 as written: every run that reaches the env step leaves .env equal to its
\* previous content followed by the block.
C4_Original ==
    [][(cmd = "setup" /\ pc = "env" /\ pc' # "env")
         => env' = File(env.data \o env_content(a))]_vars

\* C4 amended: an env step that succeeds leaves .env equal to its previous
\* content followed by the one block (the block alone when .env did not
\* exist); an env step that fails ends the run with an error and leaves the
\* previous content as the beginning of the new one; and no other step of any
\* command changes .env.  So nothing is ever removed or rewritten, and the
\* blocks of the runs that succeeded are in the file in the order of the runs.
C4_AppendOnly ==
    [][/\ (cmd = "setup" /\ pc = "env" /\ envStep' \in {"created", "appended"})
            => /\ env' = File(env.data \o env_content(a))
               /\ ~env.exists => env'.data = env_content(a)
               /\ Len(env'.data) > Len(env.data)
       /\ (cmd = "setup" /\ pc = "env" /\ envStep' = "failed")
            => /\ IsPrefix(env.data, env'.data)
               /\ result' = "err"
       /\ ~(cmd = "setup" /\ pc = "env") => env' = env]_vars

\* C4 witness: the second run_setup in a row has appended its block after the
\* block of the first, which followed what .env held before
C4_Witness ==
    /\ cmd = "setup"
    /\ runs = 2
    /\ envStep = "appended"
    /\ \E l \in {[Defaults EXCEPT !.enable_storage = TRUE,
                                  !.storage_url = <<"storage.example.com">>,
                                  !.storage_token = <<"s3cret">>]} :
         /\ env0.data = <<"FOO", "=", "bar">> \o env_content(l)
         /\ env.data = env0.data \o env_content(a)
         /\ a # l

\* C5: run_config prints, for a TOKEN key that std::env::var returns a value
\* for, the key and the fixed mask; and its output is the same for every
\* other choice of the values of the two TOKEN keys, the empty string included.
C5_TokenMasked ==
    (cmd = "config" /\ pc = "exit") =>
      /\ \A i \in {3, 6} :
           IsOk(environ[i]) => out[i + 1] = config_vars[i] \o <<": ", "********">>
      /\ \A t1, t2 \in {<<>>, <<"s3cret">>, <<"other">>} :
           LET e2 == [environ EXCEPT
                        ![3] = IF IsOk(@) THEN Ok(t1) ELSE @,
                        ![6] = IF IsOk(@) THEN Ok(t2) ELSE @]
           IN  SubSeq(out, 2, 8) = config_lines(e2)

\* C5 witness: run_config has printed an environment whose two TOKEN keys are
\* set, one to a secret and one to the empty string
C5_Witness ==
    /\ cmd = "config"
    /\ pc = "exit"
    /\ environ[3] = Ok(<<"s3cret">>)
    /\ environ[6] = Ok(<<>>)
    /\ config_vars[3] = <<"STORAGE_AUTH_", "TOKEN">>
    /\ config_vars[6] = <<"STATE_AUTH_", "TOKEN">>

\* what step 2 and step 3 of the current run_setup must have left on disk
SettingsAsLeft ==
    IF cfgStep = "created"
    THEN File(config_content(AnswerTo("enable_storage"), AnswerTo("enable_state")))
    ELSE cfg0

EnvAsLeft == File(env0.data \o env_content(a))

\* C6: once run_setup has sent its probe, both steps before it have succeeded
\* and both files exist as those steps left them, while the probe is awaited
\* and after any outcome of it; and after any outcome the run has printed
\* "Setup complete!" and returned Ok.
C6_ProbeIsAdvisory ==
    (cmd = "setup" /\ reqs # <<>>) =>
      /\ pc \in {"await", "exit"}
      /\ cfgStep \in {"created", "skipped"}
      /\ envStep \in {"created", "appended"}
      /\ cfg.exists /\ cfg = SettingsAsLeft
      /\ env.exists /\ env = EnvAsLeft
      /\ failed = "none"
      /\ pc = "await" => result = "none"
      /\ pc = "exit" => (result = "ok" /\ SetupCompletePrinted)

\* C6 witness: a run whose probe met a transport failure has ended
C6_Witness ==
    /\ cmd = "setup"
    /\ pc = "exit"
    /\ reqs # <<>>
    /\ Printed(<<"CROSS ", "Connection failed: ", "error">>)
    /\ result = "ok"
    /\ cfgStep = "created"
    /\ envStep = "created"

\* C7: run_setup has sent one request when storage is enabled and the run has
\* gone through the verify step, and none otherwise; never two; the request
\* follows the end of the settings step and of the env step, and goes to the
\* URL made of the storage url and the storage HTTP port.
C7_OneProbeAtMost ==
    cmd = "setup" =>
      /\ Len(reqs) <= 1
      /\ (pc \in {"await", "exit"} /\ envStep \in {"created", "appended"})
           => Len(reqs) = (IF AnswerTo("enable_storage") THEN 1 ELSE 0)
      /\ ~(pc \in {"await", "exit"} /\ envStep \in {"created", "appended"})
           => reqs = <<>>
      /\ reqs # <<>>
           => /\ cfgStep \in {"created", "skipped"}
              /\ envStep \in {"created", "appended"}
              /\ reqs[1] = ExpectedHealthUrl(AnswerTo("storage_url"),
                                             AnswerTo("storage_http_port"))

\* C7 witness: a run with only the state service enabled has ended with Ok
\* and no request
C7_Witness ==
    /\ cmd = "setup"
    /\ pc = "exit"
    /\ result = "ok"
    /\ AnsweredWith("enable_storage", FALSE)
    /\ AnsweredWith("enable_state", TRUE)
    /\ SetupCompletePrinted
    /\ reqs = <<>>

StorageLabels == {"storage_url", "storage_user", "storage_token", "storage_http_port"}
StateLabels == {"state_url", "state_token", "state_run_id"}

\* the value of a field of the block: the answer given when the service is
\* enabled, the default otherwise
FieldValue(enable, label, default) ==
    IF AnswerTo(enable) THEN AnswerTo(label) ELSE default

\* the lines of the block, as C8 lists them
ExpectedLines ==
    << <<>>,
       <<"# Rice Configuration">>,
       <<"STORAGE_INSTANCE_URL", "=">>
         \o FieldValue("enable_storage", "storage_url", <<"localhost", ":", "50051">>),
       <<"STORAGE_USER", "=">>
         \o FieldValue("enable_storage", "storage_user", <<"admin">>),
       <<"STORAGE_AUTH_", "TOKEN", "=">>
         \o FieldValue("enable_storage", "storage_token", <<>>),
       <<"STORAGE_HTTP_PORT", "=">>
         \o FieldValue("enable_storage", "storage_http_port", <<"3000">>),
       <<"STATE_INSTANCE_URL", "=">>
         \o FieldValue("enable_state", "state_url", <<"localhost", ":", "50051">>),
       <<"STATE_AUTH_", "TOKEN", "=">>
         \o FieldValue("enable_state", "state_token", <<>>),
       <<"STATE_RUN_ID", "=">>
         \o FieldValue("enable_state", "state_run_id", <<"default">>),
       <<>> >>

\* C8: the block a run_setup has written to .env is, line by line, the header
\* and the 7 keys once each in the fixed order, an enabled service's fields
\* with the answers given and a disabled service's fields with the defaults;
\* and no prompt of a disabled service is ever shown.
C8_BlockContent ==
    cmd = "setup" =>
      /\ envStep \in {"created", "appended"}
           => /\ IsPrefix(env0.data, env.data)
              /\ split(SubSeq(env.data, Len(env0.data) + 1, Len(env.data)), "\n")
                   = ExpectedLines
      /\ \A label \in StorageLabels :
           Asked(label) => AnsweredWith("enable_storage", TRUE)
      /\ \A label \in StateLabels :
           Asked(label) => AnsweredWith("enable_state", TRUE)

\* C8 witness: a run with only the state service enabled, and answers that
\* are not the defaults, has written its block
C8_Witness ==
    /\ cmd = "setup"
    /\ envStep = "created"
    /\ AnsweredWith("enable_storage", FALSE)
    /\ AnsweredWith("state_url", <<"state.example.com", ":", "7000">>)
    /\ AnsweredWith("state_token", <<"s3cret">>)
    /\ AnsweredWith("state_run_id", <<"run-1">>)

\* C9 as written, as a property of every state: between the write of
\* rice.config.js and the step that writes .env, the run can still be ended
\* by an interrupted prompt.
C9_Original ==
    (cmd = "setup" /\ cfgStep = "created" /\ envStep = "none" /\ pc # "exit")
      => ENABLED PromptInterrupted

\* C9 amended: a run_setup ended by an interrupted prompt has written neither
\* file, since every prompt comes before the write of rice.config.js; a run
\* that has ended with rice.config.js written by it and .env not written by
\* it was ended by a failure of the .env write.
C9_InterruptWritesNothing ==
    cmd = "setup" =>
      /\ failed = "prompt"
           => (cfgStep = "none" /\ envStep = "none" /\ cfg = cfg0 /\ env = env0)
      /\ (pc = "exit" /\ cfgStep = "created" /\ envStep \notin {"created", "appended"})
           => (failed = "env" /\ envStep = "failed")
      /\ (cfgStep # "none" /\ pc # "exit") => ~ENABLED PromptInterrupted

\* C9 witness: the last prompt of a run, the overwrite prompt, was interrupted
C9_Witness ==
    /\ cmd = "setup"
    /\ pc = "exit"
    /\ failed = "prompt"
    /\ result = "err"
    /\ Len(prompts) > 0
    /\ prompts[Len(prompts)] = <<"overwrite", Err>>

\* C10: a failed write of rice.config.js ends run_setup with an error, .env
\* untouched and no request sent; a failed open or write of .env ends it with
\* an error, no request sent, "Setup complete!" not printed, and
\* rice.config.js as step 2 left it; and a failed write never goes unreported.
C10_FilesystemFailureIsFatal ==
    cmd = "setup" =>
      /\ cfgStep = "failed" <=> failed = "cfg"
      /\ envStep = "failed" <=> failed = "env"
      /\ failed = "cfg"
           => /\ pc = "exit" /\ result = "err"
              /\ envStep = "none" /\ env = env0
              /\ reqs = <<>>
              /\ ~SetupCompletePrinted
      /\ failed = "env"
           => /\ pc = "exit" /\ result = "err"
              /\ reqs = <<>>
              /\ ~SetupCompletePrinted
              /\ cfgStep \in {"created", "skipped"}
              /\ cfg = SettingsAsLeft

\* C10 witness: the write of .env failed in a run that had written
\* rice.config.js
C10_Witness ==
    /\ cmd = "setup"
    /\ failed = "env"
    /\ cfgStep = "created"
    /\ cfg # cfg0

====
